---- MODULE Spec2Model ----
(***************************************************************************)
(* A model of the jujushell charm, reactive/juju-shell.py: the command     *)
(* executor call(), the config builder build_config(), the lifecycle       *)
(* reactions install / start / config-changed / stop and the one-time LXD  *)
(* bootstrap setup_lxd().                                                  *)
(*                                                                         *)
(* Every reaction is one atomic action: the unit agent runs one reaction   *)
(* to completion before it dispatches the next.  What the reaction reads   *)
(* from outside (the charm configuration, the hook environment, the agent  *)
(* descriptor, the outcome of each subprocess) is an input of the action.  *)
(***************************************************************************)
EXTENDS Integers, Sequences, FiniteSets, TLC

VARIABLES
    flags,        \* reactive states that are set (set_state / remove_state)
    invoked,      \* the @only_once record of setup_lxd (was_invoked)
    prev_port,    \* 'port' of the configuration saved by the last hook that loaded it and succeeded
    open_ports,   \* ports the unit has open
    config_file,  \* files/config.yaml: NoFile, or File(text)
    unit_file,    \* /usr/lib/systemd/user/jujushell.service has been rendered
    binary,       \* files/jujushell: "absent", "present", "executable"
    enabled,      \* systemctl enable has succeeded
    service,      \* "inactive" or "active"
    in_group,     \* user ubuntu is in group lxd
    bridge,       \* the LXD network jujushellbr0 exists
    image,        \* the LXD image alias termserver exists
    setup_runs,   \* how many times the body of setup_lxd has been entered
    last,         \* record of the last reaction: its name, inputs, outcome and the calls it issued
    scenario,     \* how many steps of the end-to-end scenario the reactions so far have completed
    call_in,      \* inputs of a stand-alone run of call(): command and subprocess behaviour
    call_out,     \* its result
    build_in,     \* inputs of a stand-alone run of build_config()
    build_out     \* its result and the file it leaves

vars == <<flags, invoked, prev_port, open_ports, config_file, unit_file, binary, enabled,
          service, in_group, bridge, image, setup_runs, last, scenario, call_in,
          call_out,
          build_in, build_out>>

(***************************************************************************)
(* Bounds of the model.                                                    *)
(***************************************************************************)
MaxPort == 3        \* ports are 1..MaxPort
MaxArgs == 2        \* call(): a command and up to MaxArgs - 1 arguments
MaxOut == 1         \* call(): bytes written to each of stdout and stderr
MaxAddrLen == 3     \* build_config(): characters of JUJU_API_ADDRESSES
MaxRuns == 3        \* executions of the body of setup_lxd that are followed

(***************************************************************************)
(* Values.  An optional value is a sequence of at most one element: None   *)
(* is Python's None, Some(v) a value.  A path holds no file (NoFile) or a  *)
(* file with some content (File(c)).                                       *)
(***************************************************************************)
None == <<>>
Some(v) == <<v>>
NoFile == <<>>
File(c) == <<c>>
NoExc == "none"                   \* no exception: the function returned

Ports == 1..MaxPort
LogLevels == {"info", "debug"}

IMAGE_NAME == "termserver"
LXC == "/snap/bin/lxc"
BRIGE_NAME == "jujushellbr0"

RECURSIVE Concat(_)
\* The concatenation of a sequence of sequences: that of its first half followed
\* by that of its second half.
Concat(ss) ==
    IF ss = <<>> THEN <<>>
    ELSE IF Len(ss) = 1 THEN ss[1]
    ELSE LET h == Len(ss) \div 2
         IN Concat(SubSeq(ss, 1, h)) \o Concat(SubSeq(ss, h + 1, Len(ss)))

Range(s) == {s[i] : i \in 1..Len(s)}

SeqsUpTo(S, n) == UNION {[1..k -> S] : k \in 0..n}

(***************************************************************************)
(* call(): lines 28-50.                                                    *)
(*                                                                         *)
(* A string is a sequence of pieces: a piece is one unsafe character (one  *)
(* that makes pipes.quote quote the string) or a run of safe characters.   *)
(* A subprocess either cannot be launched (Popen raises OSError) or exits  *)
(* with a return code after writing bytes to stdout and stderr.            *)
(***************************************************************************)
UnsafeChars == {" ", "'", "<", "|", "\n"}

\* pipes.quote: '' for the empty string, the string itself when every character
\* is safe, else the string in single quotes with each ' replaced by '"'"'.
QuoteChar(c) == IF c = "'" THEN <<"'", "\"", "'", "\"", "'">> ELSE <<c>>

quote(s) ==
    IF s = <<>> THEN <<"'", "'">>
    ELSE IF Range(s) \cap UnsafeChars = {} THEN s
    ELSE <<"'">> \o Concat([i \in 1..Len(s) |-> QuoteChar(s[i])]) \o <<"'">>

RECURSIVE join(_, _)
\* sep.join(parts)
join(sep, parts) ==
    IF parts = <<>> THEN <<>>
    ELSE IF Len(parts) = 1 THEN parts[1]
    ELSE parts[1] \o sep \o join(sep, Tail(parts))

\* Bytes and their decoding: 97 is 'a'; 255 starts no UTF-8 sequence, and
\* bytes.decode('utf-8') raises UnicodeDecodeError on it.
Bytes == {97, 255}
decodable(bs) == \A i \in 1..Len(bs) : bs[i] < 128
decode(bs) == [i \in 1..Len(bs) |-> IF bs[i] = 97 THEN "a" ELSE "?"]

\* What a subprocess does.
NotLaunched == [launched |-> FALSE, retcode |-> 0, stdout |-> <<>>, stderr |-> <<>>]
Exited(rc, out, err) == [launched |-> TRUE, retcode |-> rc, stdout |-> out, stderr |-> err]

\* What a function does: it returns a value or raises an exception with a message.
\* The message of call()'s OSError is the tuple of the values formatted into it.
Returned(v) == [exc |-> NoExc, msg |-> <<>>, value |-> v]
Raised(exc, msg) == [exc |-> exc, msg |-> msg, value |-> None]

\* call(command, *args): cmd is (command,) + args.  It returns None.
call(cmd, proc) ==
    LET cmdline == join(<<" ">>, [i \in 1..Len(cmd) |-> quote(cmd[i])]) IN
    IF ~proc.launched THEN Raised("OSError", <<<<"not found">>, cmd[1]>>)
    ELSE IF ~(decodable(proc.stdout) /\ decodable(proc.stderr))
    THEN Raised("UnicodeDecodeError", <<>>)
    ELSE IF proc.retcode # 0
    THEN Raised("OSError", <<<<"failed with retcode">>, cmdline, <<proc.retcode>>,
                             decode(proc.stdout) \o decode(proc.stderr)>>)
    ELSE Returned(None)

\* The commands the reactions run.
SYSTEMCTL_RESTART == <<<<"systemctl">>, <<"restart">>, <<"jujushell.service">>>>
SYSTEMCTL_STOP == <<<<"systemctl">>, <<"stop">>, <<"jujushell.service">>>>
SYSTEMCTL_ENABLE == <<<<"systemctl">>, <<"enable">>, <<"/usr/lib/systemd/user/jujushell.service">>>>
SYSTEMCTL_RELOAD == <<<<"systemctl">>, <<"daemon-reload">>>>
ADDUSER == <<<<"adduser">>, <<"ubuntu">>, <<"lxd">>>>
LXC_NETWORK_SHOW == <<<<LXC>>, <<"network">>, <<"show">>, <<BRIGE_NAME>>>>
LXC_IMAGE_SHOW == <<<<LXC>>, <<"image">>, <<"show">>, <<IMAGE_NAME>>>>
LXC_IMAGE_IMPORT == <<<<LXC>>, <<"image">>, <<"import">>, <<"/tmp/termserver.tar.gz">>,
                      <<"--alias">>, <<IMAGE_NAME>>>>
\* _LXD_INIT_COMMAND, lines 200-224: the shell command with its here-document, one
\* line of the source per line.
LXD_INIT_COMMAND ==
    <<<<
      "\n",
      "cat", " ", "<", "<", "EOF", " ", "|", " ", "/snap/bin/lxd", " ", "init", " ", "--preseed", "\n",
      "networks:", "\n",
      "-", " ", "name:", " ", "jujushellbr0", "\n",
      " ", " ", "type:", " ", "bridge", "\n",
      " ", " ", "config:", "\n",
      " ", " ", " ", " ", "ipv4.address:", " ", "auto", "\n",
      " ", " ", " ", " ", "ipv6.address:", " ", "none", "\n",
      "storage_pools:", "\n",
      "-", " ", "name:", " ", "data", "\n",
      " ", " ", "driver:", " ", "zfs", "\n",
      "profiles:", "\n",
      "-", " ", "name:", " ", "default", "\n",
      " ", " ", "devices:", "\n",
      " ", " ", " ", " ", "root:", "\n",
      " ", " ", " ", " ", " ", " ", "path:", " ", "/", "\n",
      " ", " ", " ", " ", " ", " ", "pool:", " ", "data", "\n",
      " ", " ", " ", " ", " ", " ", "type:", " ", "disk", "\n",
      " ", " ", " ", " ", "eth0:", "\n",
      " ", " ", " ", " ", " ", " ", "name:", " ", "eth0", "\n",
      " ", " ", " ", " ", " ", " ", "nictype:", " ", "bridged", "\n",
      " ", " ", " ", " ", " ", " ", "parent:", " ", "jujushellbr0", "\n",
      " ", " ", " ", " ", " ", " ", "type:", " ", "nic", "\n",
      "EOF", "\n">>>>

(***************************************************************************)
(* build_config() and get_juju_cert(): lines 53-78.                        *)
(*                                                                         *)
(* The agent descriptor agent.conf is NoFile or File(doc), doc being what  *)
(* yaml.safe_load makes of it: a YAML error, None (an empty document) or a *)
(* mapping from keys to optional strings.                                  *)
(***************************************************************************)
YamlError == [yaml |-> "error", map |-> <<>>]
YamlNull == [yaml |-> "null", map |-> <<>>]
YamlMap(m) == [yaml |-> "map", map |-> m]

Whitespace == {" ", "\n"}

RECURSIVE split_from(_, _)
\* str.split(): the maximal runs of non-whitespace characters, in order.
\* cur is the run being read.
split_from(s, cur) ==
    IF s = <<>> THEN (IF cur = <<>> THEN <<>> ELSE <<cur>>)
    ELSE IF Head(s) \in Whitespace
         THEN (IF cur = <<>> THEN <<>> ELSE <<cur>>) \o split_from(Tail(s), <<>>)
         ELSE split_from(Tail(s), Append(cur, Head(s)))

split(s) == split_from(s, <<>>)

\* yaml.safe_load(stream)['cacert'] on the file at AGENT.  A mapping is a
\* sequence of <<key, value>> pairs.
HasKey(m, k) == \E i \in 1..Len(m) : m[i][1] = k
Lookup(m, k) == m[CHOOSE i \in 1..Len(m) : m[i][1] = k][2]

get_juju_cert(agent) ==
    IF agent = NoFile THEN Raised("FileNotFoundError", <<>>)
    ELSE IF agent[1].yaml = "error" THEN Raised("YAMLError", <<>>)
    ELSE IF agent[1].yaml = "null" THEN Raised("TypeError", <<>>)
    ELSE IF ~HasKey(agent[1].map, "cacert") THEN Raised("KeyError", <<>>)
    ELSE Returned(Lookup(agent[1].map, "cacert"))

\* The document build_config() dumps.  A configuration cfg is the record of the
\* charm's options, log_level and port.
ConfigData(addrs, cert, cfg) ==
    [juju_addrs |-> addrs, juju_cert |-> cert, image_name |-> IMAGE_NAME,
     log_level |-> cfg.log_level, port |-> cfg.port]

\* YAML values: a value is <<tag, string, list, integer>>, the tag saying which
\* of the three it is, or that it is null.
YamlStr(s) == <<"str", <<s>>, <<>>, <<>>>>
YamlList(l) == <<"list", <<>>, l, <<>>>>
YamlInt(n) == <<"int", <<>>, <<>>, <<n>>>>
YamlNone == <<"null", <<>>, <<>>, <<>>>>
YamlOptStr(v) == IF v = None THEN YamlNone ELSE YamlStr(v[1])

\* yaml.safe_dump of the document: the text is one <<key, value>> entry per key,
\* the keys in sorted order.
safe_dump(data) ==
    <<<<"image-name", YamlStr(data.image_name)>>,
      <<"juju-addrs", YamlList(data.juju_addrs)>>,
      <<"juju-cert", YamlOptStr(data.juju_cert)>>,
      <<"log-level", YamlStr(data.log_level)>>,
      <<"port", YamlInt(data.port)>>>>

\* yaml.safe_load of a text of entries: the mapping from the keys to their
\* values, the last entry of a key being the one that counts.
safe_load(text) ==
    [k \in {text[i][1] : i \in 1..Len(text)} |->
        text[CHOOSE i \in 1..Len(text) :
                /\ text[i][1] = k
                /\ \A j \in (i + 1)..Len(text) : text[j][1] # k][2]]

\* A mutant of build_config: config.yaml is opened for writing before the inputs are read.
build_config_open_first(file, api_addrs, agent, cfg) ==
    IF api_addrs = None THEN [exc |-> "ValueError", file |-> File(<<>>)]
    ELSE LET cert == get_juju_cert(agent) IN
         IF cert.exc # NoExc THEN [exc |-> cert.exc, file |-> File(<<>>)]
         ELSE [exc |-> NoExc,
               file |-> File(safe_dump(ConfigData(split(api_addrs[1]), cert.value, cfg)))]

\* A mutant of build_config: the document is appended to config.yaml.
build_config_append(file, api_addrs, agent, cfg) ==
    IF api_addrs = None THEN [exc |-> "ValueError", file |-> file]
    ELSE LET cert == get_juju_cert(agent) IN
         IF cert.exc # NoExc THEN [exc |-> cert.exc, file |-> file]
         ELSE [exc |-> NoExc,
               file |-> File((IF file = NoFile THEN <<>> ELSE file[1]) \o
                             safe_dump(ConfigData(split(api_addrs[1]), cert.value, cfg)))]

\* build_config(): file is config.yaml before the call, api_addrs the optional
\* value of JUJU_API_ADDRESSES, cfg is hookenv.config().  The result is the
\* exception raised and config.yaml after the call.
build_config(file, api_addrs, agent, cfg) ==
    IF api_addrs = None THEN [exc |-> "ValueError", file |-> file]
    ELSE LET cert == get_juju_cert(agent) IN
         IF cert.exc # NoExc THEN [exc |-> cert.exc, file |-> file]
         ELSE [exc |-> NoExc,
               file |-> File(safe_dump(ConfigData(split(api_addrs[1]), cert.value, cfg)))]

(***************************************************************************)
(* The state a reaction works on, and the framework calls it makes.        *)
(*                                                                         *)
(* A reaction starts from the unit's state (Begin) and runs its statements *)
(* in order; m.exc is the exception that has been raised, and a statement  *)
(* reached after an exception does nothing.  m.calls is the trace of the   *)
(* calls issued, each <<operation, port argument, command or name, how it  *)
(* ended>>.                                                                *)
(* m.requests are the port requests made with the open-port and close-port *)
(* hook tools.  m.loaded says that hookenv.config() has been called.       *)
(***************************************************************************)
Begin ==
    [flags |-> flags, config_file |-> config_file, unit_file |-> unit_file,
     binary |-> binary, enabled |-> enabled, service |-> service,
     in_group |-> in_group, bridge |-> bridge, image |-> image,
     requests |-> <<>>, loaded |-> FALSE, calls |-> <<>>, exc |-> NoExc]

Entry(op, port, what, end) == <<op, port, what, end>>

\* How a call ended: "returned", the reason of call()'s OSError ("not found",
\* "failed with retcode"), or the name of another exception.
Ending(r) ==
    IF r.exc = NoExc THEN "returned"
    ELSE IF r.exc = "OSError" /\ r.msg # <<>> THEN r.msg[1][1]
    ELSE r.exc
Issue(m, e) == [m EXCEPT !.calls = Append(@, e)]

\* What a command does to the system when it exits with code 0.  The
\* initialization creates the networks its preseed document names.
Effect(m, cmd) ==
    CASE cmd = SYSTEMCTL_RESTART -> [m EXCEPT !.service = "active"]
      [] cmd = SYSTEMCTL_STOP -> [m EXCEPT !.service = "inactive"]
      [] cmd = SYSTEMCTL_ENABLE -> [m EXCEPT !.enabled = TRUE]
      [] cmd = ADDUSER -> [m EXCEPT !.in_group = TRUE]
      [] cmd = LXD_INIT_COMMAND -> [m EXCEPT !.bridge = @ \/ BRIGE_NAME \in Range(cmd[1])]
      [] cmd = LXC_IMAGE_IMPORT -> [m EXCEPT !.image = TRUE]
      [] OTHER -> m

\* A restart that exits with a failure leaves the service as it was or inactive.
FailureEffect(m, cmd, stops) ==
    IF cmd = SYSTEMCTL_RESTART /\ stops THEN [m EXCEPT !.service = "inactive"] ELSE m

\* The statement call(*cmd) in a reaction: the subprocess acts on the system,
\* and call() returns or raises.
Run(m, cmd, proc, stops) ==
    IF m.exc # NoExc THEN m
    ELSE LET r == call(cmd, proc)
             m1 == Issue(m, Entry("call", None, cmd, Ending(r)))
             m2 == IF ~proc.launched THEN m1
                   ELSE IF proc.retcode = 0 THEN Effect(m1, cmd)
                   ELSE FailureEffect(m1, cmd, stops)
         IN [m2 EXCEPT !.exc = r.exc]

\* hookenv.close_port(port): runs the close-port hook tool; port is optional,
\* and close_none_ok says whether the tool accepts the port None.
close_port(m, port, close_none_ok) ==
    IF m.exc # NoExc THEN m
    ELSE IF port = None /\ ~close_none_ok
         THEN [Issue(m, Entry("close_port", port, <<>>, "CalledProcessError")) EXCEPT
                 !.exc = "CalledProcessError"]
         ELSE [Issue(m, Entry("close_port", port, <<>>, "returned")) EXCEPT
                 !.requests = Append(@, <<"close", port>>)]

\* hookenv.open_port(port)
open_port(m, port) ==
    IF m.exc # NoExc THEN m
    ELSE [Issue(m, Entry("open_port", port, <<>>, "returned")) EXCEPT
            !.requests = Append(@, <<"open", port>>)]

set_state(m, name) ==
    IF m.exc # NoExc THEN m
    ELSE [Issue(m, Entry("set_state", None, <<<<name>>>>, "returned")) EXCEPT !.flags = @ \cup {name}]

remove_state(m, name) ==
    IF m.exc # NoExc THEN m
    ELSE [Issue(m, Entry("remove_state", None, <<<<name>>>>, "returned")) EXCEPT !.flags = @ \ {name}]

\* The statement build_config() in a reaction.  hookenv.config() is called on
\* line 59, once JUJU_API_ADDRESSES has been found.
BuildConfig(m, in) ==
    IF m.exc # NoExc THEN m
    ELSE LET r == build_config(m.config_file, in.addrs, in.agent, in.cfg) IN
         [Issue(m, Entry("build_config", None, <<>>, Ending(r))) EXCEPT
            !.config_file = r.file, !.exc = r.exc,
            !.loaded = @ \/ in.addrs # None]

(***************************************************************************)
(* manage_ports() and restart(): lines 81-100.                             *)
(*                                                                         *)
(* prev is the optional 'port' of the previously saved configuration:      *)
(* cfg.changed('port') is true when nothing was saved or the saved value   *)
(* differs, and cfg.previous('port') is the saved value or None.           *)
(***************************************************************************)
changed(prev, cfg) == prev = None \/ prev[1] # cfg.port

\* A mutant of manage_ports: the previous port is never closed.
manage_ports_no_close(m, prev, in) ==
    LET m1 == [m EXCEPT !.loaded = TRUE]
        m3 == open_port(m1, Some(in.cfg.port))
    IN BuildConfig(m3, in)

\* A mutant of manage_ports: the current port is closed when the port changed.
manage_ports_close_current(m, prev, in) ==
    LET m1 == [m EXCEPT !.loaded = TRUE]
        m2 == IF changed(prev, in.cfg)
              THEN close_port(m1, Some(in.cfg.port), in.close_none_ok) ELSE m1
        m3 == open_port(m2, Some(in.cfg.port))
    IN BuildConfig(m3, in)

\* A mutant of manage_ports: config.yaml is rebuilt before the ports are reconciled.
manage_ports_build_first(m, prev, in) ==
    LET m1 == BuildConfig([m EXCEPT !.loaded = TRUE], in)
        m2 == IF changed(prev, in.cfg) THEN close_port(m1, prev, in.close_none_ok) ELSE m1
    IN open_port(m2, Some(in.cfg.port))

manage_ports(m, prev, in) ==
    LET m1 == [m EXCEPT !.loaded = TRUE]
        m2 == IF changed(prev, in.cfg) THEN close_port(m1, prev, in.close_none_ok) ELSE m1
        m3 == open_port(m2, Some(in.cfg.port))
    IN BuildConfig(m3, in)

\* A mutant of restart: the stopped state is not removed.
restart_keeps_stopped(m, prev, in) ==
    LET m1 == manage_ports(m, prev, in)
        m2 == Run(m1, SYSTEMCTL_RESTART, in.p_restart, in.stops)
    IN set_state(m2, "jujushell.started")

\* A mutant of restart: the states are changed before the service is restarted.
restart_flags_first(m, prev, in) ==
    LET m1 == manage_ports(m, prev, in)
        m2 == set_state(m1, "jujushell.started")
        m3 == remove_state(m2, "jujushell.stopped")
    IN Run(m3, SYSTEMCTL_RESTART, in.p_restart, in.stops)

restart(m, prev, in) ==
    LET m1 == manage_ports(m, prev, in)
        m2 == Run(m1, SYSTEMCTL_RESTART, in.p_restart, in.stops)
        m3 == set_state(m2, "jujushell.started")
    IN remove_state(m3, "jujushell.stopped")

(***************************************************************************)
(* save_resource() and install_service(): lines 103-139.                   *)
(***************************************************************************)
\* save_resource(name, path) for the jujushell binary: got says whether
\* hookenv.resource_get returned a path.
save_binary(m, got) ==
    IF m.exc # NoExc THEN m
    ELSE IF ~got
         THEN [Issue(m, Entry("save_resource", None, <<<<"jujushell">>>>, "OSError")) EXCEPT
                 !.exc = "OSError"]
         ELSE [Issue(m, Entry("save_resource", None, <<<<"jujushell">>>>, "returned")) EXCEPT
                 !.binary = "present"]

\* os.chmod(binary, 0o775)
chmod_binary(m) ==
    IF m.exc # NoExc THEN m ELSE [m EXCEPT !.binary = "executable"]

\* templating.render of the unit definition
render_unit(m) ==
    IF m.exc # NoExc THEN m
    ELSE [Issue(m, Entry("render", None, <<<<"jujushell.service">>>>, "returned")) EXCEPT
            !.unit_file = TRUE]

\* A mutant of install_service: a failure of the systemctl commands is swallowed.
install_service_swallows(m, in) ==
    LET m1 == render_unit(m)
        m2 == save_binary(m1, in.got_binary)
        m3 == chmod_binary(m2)
        m4 == BuildConfig(m3, in)
        m5 == Run(m4, SYSTEMCTL_ENABLE, in.p_enable, FALSE)
        m6 == Run(IF m4.exc = NoExc THEN [m5 EXCEPT !.exc = NoExc] ELSE m5,
                  SYSTEMCTL_RELOAD, in.p_reload, FALSE)
    IN set_state(IF m4.exc = NoExc THEN [m6 EXCEPT !.exc = NoExc] ELSE m6,
                 "jujushell.installed")

install_service(m, in) ==
    LET m1 == render_unit(m)
        m2 == save_binary(m1, in.got_binary)
        m3 == chmod_binary(m2)
        m4 == BuildConfig(m3, in)
        m5 == Run(m4, SYSTEMCTL_ENABLE, in.p_enable, FALSE)
        m6 == Run(m5, SYSTEMCTL_RELOAD, in.p_reload, FALSE)
    IN set_state(m6, "jujushell.installed")

(***************************************************************************)
(* stop(): lines 191-196.                                                  *)
(***************************************************************************)
\* A mutant of stop: the started state is not removed.
stop_keeps_started(m, in) ==
    LET m1 == Run(m, SYSTEMCTL_STOP, in.p_stop, FALSE)
    IN set_state(m1, "jujushell.stopped")

\* A mutant of stop: the port of the configuration is closed once the service is stopped.
stop_closes_port(m, in) ==
    LET m1 == Run(m, SYSTEMCTL_STOP, in.p_stop, FALSE)
        m2 == close_port(m1, Some(in.cfg.port), TRUE)
        m3 == remove_state(m2, "jujushell.started")
    IN set_state(m3, "jujushell.stopped")

\* A mutant of stop: stopping a service that is stopped is an error.
stop_once(m, in) ==
    IF "jujushell.stopped" \in m.flags THEN [m EXCEPT !.exc = "OSError"]
    ELSE LET m1 == Run(m, SYSTEMCTL_STOP, in.p_stop, FALSE)
             m2 == remove_state(m1, "jujushell.started")
         IN set_state(m2, "jujushell.stopped")

stop(m, in) ==
    LET m1 == Run(m, SYSTEMCTL_STOP, in.p_stop, FALSE)
        m2 == remove_state(m1, "jujushell.started")
    IN set_state(m2, "jujushell.stopped")

(***************************************************************************)
(* setup_lxd(): lines 142-178.                                             *)
(*                                                                         *)
(* An 'except OSError' clause catches the OSError of call(), whichever of  *)
(* its two raise statements raised it, and no other exception.             *)
(***************************************************************************)
Caught(m) == [m EXCEPT !.exc = NoExc]

\* save_resource('termserver', image): got says whether resource_get returned a path.
save_image(m, got) ==
    IF m.exc # NoExc THEN m
    ELSE IF ~got
         THEN [Issue(m, Entry("save_resource", None, <<<<IMAGE_NAME>>>>, "OSError")) EXCEPT
                 !.exc = "OSError"]
         ELSE Issue(m, Entry("save_resource", None, <<<<IMAGE_NAME>>>>, "returned"))

\* Lines 153-164: the bridge probe and the initialization.
\* A mutant: the initialization is run whatever the probe says.
setup_bridge_always_init(m, in) ==
    LET m1 == Run(m, LXC_NETWORK_SHOW, in.p_netshow, FALSE)
    IN IF m.exc = NoExc /\ m1.exc \in {NoExc, "OSError"}
       THEN Run(Caught(m1), LXD_INIT_COMMAND, in.p_init, FALSE)
       ELSE m1

setup_bridge(m, in) ==
    LET m1 == Run(m, LXC_NETWORK_SHOW, in.p_netshow, FALSE)
    IN IF m.exc = NoExc /\ m1.exc = "OSError"
       THEN Run(Caught(m1), LXD_INIT_COMMAND, in.p_init, FALSE)
       ELSE m1

\* Lines 166-177: the image probe, the fetch and the import.
\* A mutant: the image is fetched and imported whatever the probe says.
setup_image_always_import(m, in) ==
    LET m1 == Run(m, LXC_IMAGE_SHOW, in.p_imgshow, FALSE)
    IN IF m.exc = NoExc /\ m1.exc \in {NoExc, "OSError"}
       THEN Run(save_image(Caught(m1), in.got_image), LXC_IMAGE_IMPORT, in.p_import, FALSE)
       ELSE m1

setup_image(m, in) ==
    LET m1 == Run(m, LXC_IMAGE_SHOW, in.p_imgshow, FALSE)
    IN IF m.exc = NoExc /\ m1.exc = "OSError"
       THEN Run(save_image(Caught(m1), in.got_image), LXC_IMAGE_IMPORT, in.p_import, FALSE)
       ELSE m1

setup_lxd(m, in) ==
    LET m1 == Run(m, ADDUSER, in.p_adduser, FALSE)
        m2 == setup_bridge(m1, in)
    IN setup_image(m2, in)

\* @when('snap.installed.lxd') and @only_once: the handler is eligible when the
\* state is set and the handler has not been marked as invoked.
\* A mutant of only_once: the record of the invocation is not consulted.
only_once_ignored(was_invoked) == TRUE

only_once(was_invoked) == ~was_invoked

\* The handler is marked as invoked by a callback that runs after the handler
\* has returned; it does not run when the handler raises.
\* A mutant of mark_invoked: the handler is marked whether it returned or raised.
mark_invoked_always(was_invoked, exc) == TRUE

mark_invoked(was_invoked, exc) == was_invoked \/ exc = NoExc

(***************************************************************************)
(* The inputs of a reaction.                                               *)
(***************************************************************************)
Succeeds == Exited(0, <<>>, <<>>)
HookProcs ==
    {NotLaunched, Succeeds, Exited(1, <<>>, <<97>>), Exited(1, <<>>, <<255>>),
     Exited(0, <<255>>, <<>>)}

Ok(proc) == proc.launched /\ proc.retcode = 0

\* Values of JUJU_API_ADDRESSES and contents of agent.conf that the reactions are
\* run with; build_config() alone is run with more (BuildAddrs, BuildAgents).
HookAddrs == {None, Some(<<"a", " ", "a">>)}
HookAgents == {NoFile, File(YamlError), File(YamlMap(<<<<"cacert", Some("CERT")>>>>))}
BuildAgents ==
    {NoFile, File(YamlError), File(YamlNull),
     File(YamlMap(<<<<"controller", Some("c")>>>>)),
     File(YamlMap(<<<<"cacert", Some("CERT")>>>>)),
     File(YamlMap(<<<<"cacert", None>>>>))}
Configs == [port : Ports, log_level : LogLevels]

DefaultIn ==
    [cfg |-> [port |-> 1, log_level |-> "info"], addrs |-> None, agent |-> NoFile,
     close_none_ok |-> TRUE, stops |-> FALSE, got_binary |-> TRUE, got_image |-> TRUE,
     p_restart |-> Succeeds, p_stop |-> Succeeds, p_enable |-> Succeeds,
     p_reload |-> Succeeds, p_adduser |-> Succeeds, p_netshow |-> Succeeds,
     p_init |-> Succeeds, p_imgshow |-> Succeeds, p_import |-> Succeeds]

(***************************************************************************)
(* The end of a hook.  The unit agent applies the port requests of a hook  *)
(* when the hook exits successfully and drops them when it fails, and the  *)
(* configuration loaded with hookenv.config() is saved as the previous one *)
(* when the hook exits successfully.                                       *)
(***************************************************************************)
RECURSIVE ApplyRequests(_, _)
ApplyRequests(ports, reqs) ==
    IF reqs = <<>> THEN ports
    ELSE LET r == Head(reqs)
             next == IF r[1] = "open" THEN ports \cup Range(r[2]) ELSE ports \ Range(r[2])
         IN ApplyRequests(next, Tail(reqs))

\* The end-to-end scenario: install, start, config-changed with a new port, stop,
\* one after the other and each succeeding.  NextStep says that the reaction is
\* the step that follows the first n steps; a successful install starts the
\* scenario anew.
NextStep(n, name, in) ==
    \/ n = 0 /\ name = "install"
    \/ n = 1 /\ name = "start"
    \/ n = 2 /\ name = "config-changed" /\ Some(in.cfg.port) # prev_port
    \/ n = 3 /\ name = "stop"

Finish(name, ran, m, in) ==
    /\ flags' = m.flags
    /\ config_file' = m.config_file
    /\ unit_file' = m.unit_file
    /\ binary' = m.binary
    /\ enabled' = m.enabled
    /\ service' = m.service
    /\ in_group' = m.in_group
    /\ bridge' = m.bridge
    /\ image' = m.image
    /\ open_ports' = IF m.exc = NoExc THEN ApplyRequests(open_ports, m.requests)
                     ELSE open_ports
    /\ prev_port' = IF m.exc = NoExc /\ m.loaded THEN Some(in.cfg.port) ELSE prev_port
    /\ last' = [name |-> name, ran |-> ran, exc |-> m.exc, calls |-> m.calls,
                port |-> IF name \in {"start", "config-changed"} THEN Some(in.cfg.port)
                         ELSE None,
                in |-> in,
                again |-> ran /\ name = last.name /\ in = last.in /\ last.exc = NoExc]
    /\ scenario' = IF m.exc = NoExc /\ NextStep(scenario, name, in) THEN scenario + 1
                    ELSE IF m.exc = NoExc /\ NextStep(0, name, in) THEN 1
                    ELSE 0

(***************************************************************************)
(* The reactions.                                                          *)
(***************************************************************************)
\* The input of a statement that is not reached is immaterial, and is fixed to
\* one value (a subprocess: NotLaunched).
If(reached, S, default) == IF reached THEN S ELSE {default}
Returns(cmd, proc) == call(cmd, proc).exc = NoExc
Misses(cmd, proc) == call(cmd, proc).exc = "OSError"
Builds(addrs, agent) == addrs # None /\ get_juju_cert(agent).exc = NoExc

\* The inputs of restart() when the saved port is prev.  The option log-level is
\* read on line 64, once the certificate has been found.
RestartInputs(prev) ==
    UNION {UNION {UNION {UNION {UNION {UNION {
        {[DefaultIn EXCEPT !.cfg = [port |-> n, log_level |-> l], !.close_none_ok = k,
                           !.addrs = a, !.agent = g, !.p_restart = p, !.stops = s] :
         s \in If(p.launched /\ p.retcode # 0, BOOLEAN, FALSE)} :
         p \in If(Builds(a, g), HookProcs, NotLaunched)} :
         l \in If(Builds(a, g), LogLevels, DefaultIn.cfg.log_level)} :
         g \in If(a # None, HookAgents, NoFile)} :
         a \in If(prev # None \/ k, HookAddrs, None)} :
         k \in If(prev = None, BOOLEAN, TRUE)} :
         n \in Ports}

\* The inputs of install_service().  The options are read on lines 64-65, once
\* the certificate has been found.
InstallInputs ==
    UNION {UNION {UNION {UNION {UNION {
        {[DefaultIn EXCEPT !.cfg = c, !.got_binary = b, !.addrs = a, !.agent = g,
                           !.p_enable = p1, !.p_reload = p2] :
         p2 \in If(Returns(SYSTEMCTL_ENABLE, p1), HookProcs, NotLaunched)} :
         p1 \in If(Builds(a, g), HookProcs, NotLaunched)} :
         c \in If(Builds(a, g), Configs, DefaultIn.cfg)} :
         g \in If(a # None, HookAgents, NoFile)} :
         a \in If(b, HookAddrs, None)} :
         b \in BOOLEAN}

\* @hook('start')
start ==
    \E in \in RestartInputs(prev_port) :
        /\ Finish("start", TRUE, restart(Begin, prev_port, in), in)
        /\ UNCHANGED <<invoked, setup_runs, call_in, call_out, build_in, build_out>>

\* @hook('config-changed')
config_changed ==
    \E in \in RestartInputs(prev_port) :
        /\ Finish("config-changed", TRUE, restart(Begin, prev_port, in), in)
        /\ UNCHANGED <<invoked, setup_runs, call_in, call_out, build_in, build_out>>

\* @hook('stop')
stop_hook ==
    \E p \in HookProcs :
        LET in == [DefaultIn EXCEPT !.p_stop = p] IN
        /\ Finish("stop", TRUE, stop(Begin, in), in)
        /\ UNCHANGED <<invoked, setup_runs, call_in, call_out, build_in, build_out>>

\* @hook('install').  The unit agent runs the install hook as the first hook of
\* the unit, and again only to retry it.
install ==
    /\ last.name \in {"none", "install"}
    /\ \E in \in InstallInputs :
         /\ Finish("install", TRUE, install_service(Begin, in), in)
         /\ UNCHANGED <<invoked, setup_runs, call_in, call_out, build_in, build_out>>

\* The snap layer reports that the lxd snap is installed.
snap_installed ==
    /\ "snap.installed.lxd" \notin flags
    /\ flags' = flags \cup {"snap.installed.lxd"}
    /\ UNCHANGED <<invoked, prev_port, open_ports, config_file, unit_file, binary, enabled,
                   service, in_group, bridge, image, setup_runs, last, scenario,
                   call_in, call_out, build_in, build_out>>

\* The inputs of setup_lxd.  A probe exits with code 0 only if what it looks
\* for exists: has_bridge and has_image say so.
Probes(exists) == {p \in HookProcs : Ok(p) => exists}

SetupInputs(has_bridge, has_image) ==
    UNION {UNION {UNION {UNION {UNION {
        {[DefaultIn EXCEPT !.p_adduser = p1, !.p_netshow = p2, !.p_init = p3,
                           !.p_imgshow = p4, !.got_image = b, !.p_import = p5] :
         p5 \in If(Misses(LXC_IMAGE_SHOW, p4) /\ b, HookProcs, NotLaunched)} :
         b \in If(Misses(LXC_IMAGE_SHOW, p4), BOOLEAN, FALSE)} :
         p4 \in If(Returns(ADDUSER, p1) /\ (Returns(LXC_NETWORK_SHOW, p2) \/
                     (Misses(LXC_NETWORK_SHOW, p2) /\ Returns(LXD_INIT_COMMAND, p3))),
                   Probes(has_image), NotLaunched)} :
         p3 \in If(Misses(LXC_NETWORK_SHOW, p2), HookProcs, NotLaunched)} :
         p2 \in If(Returns(ADDUSER, p1), Probes(has_bridge), NotLaunched)} :
         p1 \in HookProcs}

\* A dispatch in which snap.installed.lxd is set: setup_lxd runs if it is eligible.
dispatch_setup_lxd ==
    /\ "snap.installed.lxd" \in flags
    /\ IF only_once(invoked)
       THEN /\ setup_runs < MaxRuns
            /\ setup_runs' = setup_runs + 1
            /\ \E in \in SetupInputs(bridge, image) :
                 LET m == setup_lxd(Begin, in) IN
                 /\ Finish("setup_lxd", TRUE, m, in)
                 /\ invoked' = mark_invoked(invoked, m.exc)
       ELSE /\ Finish("setup_lxd", FALSE, Begin, DefaultIn)
            /\ UNCHANGED <<invoked, setup_runs>>
    /\ UNCHANGED <<call_in, call_out, build_in, build_out>>

(***************************************************************************)
(* Stand-alone runs of call() and build_config().                          *)
(***************************************************************************)
CallTokens == {<<>>, <<"a">>, <<"a", " ", "a">>, <<"'">>}
CallCmds == UNION {[1..k -> CallTokens] : k \in 1..MaxArgs}
RetCodes == {-9, 0, 1, 2}
CallProcs ==
    {NotLaunched} \cup
    {Exited(rc, out, err) : rc \in RetCodes, out \in SeqsUpTo(Bytes, MaxOut),
                            err \in SeqsUpTo(Bytes, MaxOut)}
CallInputs == [cmd : CallCmds, proc : CallProcs]

run_call ==
    /\ call_out = None
    /\ call_out' = Some(call(call_in.cmd, call_in.proc))
    /\ UNCHANGED <<flags, invoked, prev_port, open_ports, config_file, unit_file, binary,
                   enabled, service, in_group, bridge, image, setup_runs, last, scenario,
                   call_in, build_in, build_out>>

OldDocument == safe_dump(ConfigData(<<<<"old">>>>, Some("OLDCERT"), [port |-> 1, log_level |-> "info"]))
BuildFiles == {NoFile, File(<<>>), File(OldDocument)}
BuildAddrs == {None} \cup {Some(s) : s \in SeqsUpTo({"a", " "}, MaxAddrLen)}
BuildInputs == [file : BuildFiles, addrs : BuildAddrs, agent : BuildAgents, cfg : Configs]

run_build ==
    /\ build_out = None
    /\ build_out' = Some(build_config(build_in.file, build_in.addrs, build_in.agent,
                                      build_in.cfg))
    /\ UNCHANGED <<flags, invoked, prev_port, open_ports, config_file, unit_file, binary,
                   enabled, service, in_group, bridge, image, setup_runs, last, scenario,
                   call_in, call_out, build_in>>

(***************************************************************************)
(* Specifications.                                                         *)
(***************************************************************************)
NoReaction ==
    [name |-> "none", ran |-> FALSE, exc |-> NoExc, calls |-> <<>>, port |-> None,
     in |-> DefaultIn, again |-> FALSE]

\* A new unit: no state is set, nothing is saved, open or installed.
InitUnit ==
    /\ flags = {}
    /\ invoked = FALSE
    /\ prev_port = None
    /\ open_ports = {}
    /\ config_file = NoFile
    /\ unit_file = FALSE
    /\ binary = "absent"
    /\ enabled = FALSE
    /\ service = "inactive"
    /\ in_group = FALSE
    /\ setup_runs = 0
    /\ last = NoReaction
    /\ scenario = 0

InitIdle ==
    /\ call_in = [cmd |-> <<<<"a">>>>, proc |-> NotLaunched]
    /\ call_out = None
    /\ build_in = [file |-> NoFile, addrs |-> None, agent |-> NoFile, cfg |-> DefaultIn.cfg]
    /\ build_out = None

\* The host may have LXD initialized and the image imported already.
Init ==
    /\ InitUnit
    /\ InitIdle
    /\ bridge \in BOOLEAN
    /\ image \in BOOLEAN

InitLifecycle ==
    /\ InitUnit
    /\ InitIdle
    /\ bridge = FALSE
    /\ image = FALSE

Next == install \/ start \/ config_changed \/ stop_hook

\* The lifecycle of the unit: install, then any sequence of start,
\* config-changed and stop.
Spec == InitLifecycle /\ [][Next]_vars

NextLxd == snap_installed \/ dispatch_setup_lxd

\* The bootstrap: the dispatches in which snap.installed.lxd is set.
SpecLxd == Init /\ [][NextLxd]_vars

\* call() on every command and subprocess behaviour within the bounds.
InitCall ==
    /\ InitUnit
    /\ bridge = FALSE
    /\ image = FALSE
    /\ call_in \in CallInputs
    /\ call_out = None
    /\ build_in = [file |-> NoFile, addrs |-> None, agent |-> NoFile, cfg |-> DefaultIn.cfg]
    /\ build_out = None

SpecCall == InitCall /\ [][run_call]_vars

\* build_config() on every input within the bounds.
InitBuild ==
    /\ InitUnit
    /\ bridge = FALSE
    /\ image = FALSE
    /\ call_in = [cmd |-> <<<<"a">>>>, proc |-> NotLaunched]
    /\ call_out = None
    /\ build_in \in BuildInputs
    /\ build_out = None

SpecBuild == InitBuild /\ [][run_build]_vars

(***************************************************************************)
(* Properties.                                                             *)
(***************************************************************************)
Started == "jujushell.started" \in flags
Stopped == "jujushell.stopped" \in flags
Restarts == {"start", "config-changed"}
Failed(r) == r.exc # NoExc

\* The positions in a trace of the calls of an operation, and of a command.
Calls(calls, op) == {i \in 1..Len(calls) : calls[i][1] = op}
Commands(calls, cmd) == {i \in 1..Len(calls) : calls[i][1] = "call" /\ calls[i][3] = cmd}
Fetches(calls, name) ==
    {i \in 1..Len(calls) : calls[i][1] = "save_resource" /\ calls[i][3] = <<<<name>>>>}
IsPortCall(e) == e[1] \in {"close_port", "open_port"}
PortCalls(calls) == SelectSeq(calls, IsPortCall)
Miss == {"not found", "failed with retcode"}

\* C1: between reactions jujushell.started and jujushell.stopped are never both
\* set; after a start, config-changed or stop reaction that succeeded exactly one
\* of them is set, and it stays so through every later reaction, whether it
\* succeeds or fails.
C1_ExactlyOneOfStartedStopped ==
    /\ [](~(Started /\ Stopped))
    /\ []((last.name \in Restarts \cup {"stop"} /\ ~Failed(last)) => (Started # Stopped))
    /\ [][(Started # Stopped) => (Started' # Stopped')]_vars

\* A start that failed after a stop had succeeded.
C1_Witness == last.name = "start" /\ Failed(last) /\ Stopped /\ prev_port # None

\* C2: over sequences of start, config-changed and stop with any configured
\* port at each, failed reactions included, at most one port is open, and in
\* every reaction each close_port is issued before each open_port.
C2_AtMostOnePortOpen ==
    /\ Cardinality(open_ports) <= 1
    /\ \A i \in Calls(last.calls, "close_port"), j \in Calls(last.calls, "open_port") : i < j

\* A reaction that failed after it had asked to open a port other than the open one.
C2_Witness ==
    /\ last.name \in Restarts
    /\ Failed(last)
    /\ open_ports # {}
    /\ \E j \in Calls(last.calls, "open_port") : last.calls[j][2][1] \notin open_ports

\* C3: a restart() that finds a saved port issues, when the configured port
\* differs from it, close_port for the saved port and then open_port for the
\* configured port, and, when it does not differ, open_port for the configured
\* port alone; it issues no other port call.
ExpectedPortCalls(prev, port) ==
    IF prev # port
    THEN <<Entry("close_port", Some(prev), <<>>, "returned"),
           Entry("open_port", Some(port), <<>>, "returned")>>
    ELSE <<Entry("open_port", Some(port), <<>>, "returned")>>

C3_PortCallsOfRestart ==
    [][(last'.name \in Restarts /\ prev_port # None) =>
         PortCalls(last'.calls) = ExpectedPortCalls(prev_port[1], last'.port[1])]_vars

\* A restart that closed one port and opened another.
C3_Witness ==
    /\ last.name \in Restarts
    /\ \E i \in Calls(last.calls, "close_port") :
         last.calls[i][2] # None /\ last.calls[i][2] # last.port

\* C4: the initialization command is issued only after the 'network show' probe
\* of the same execution raised the OSError of call(), and no reaction issues it
\* once setup_lxd is marked as invoked.
C4_InitOnlyAfterProbeMiss ==
    /\ [](\A i \in Commands(last.calls, LXD_INIT_COMMAND) :
            i > 1 /\ last.calls[i - 1][1] = "call" /\ last.calls[i - 1][3] = LXC_NETWORK_SHOW
                  /\ last.calls[i - 1][4] \in Miss)
    /\ [][invoked => (last' = last \/ Commands(last'.calls, LXD_INIT_COMMAND) = {})]_vars

\* The bootstrap completed in an execution that initialized LXD.
C4_Witness ==
    invoked /\ ~Failed(last) /\ Commands(last.calls, LXD_INIT_COMMAND) # {}

\* C5 as claimed: the body of setup_lxd is entered at most once, failed executions included.
C5_AtMostOneExecution == setup_runs <= 1

\* C5: setup_lxd is marked as invoked exactly by an execution that returns; an
\* execution that raises leaves it eligible, and once it is marked no dispatch
\* enters its body again.
C5_AtMostOneCompletion ==
    /\ [][invoked => (invoked' /\ setup_runs' = setup_runs)]_vars
    /\ [][setup_runs' # setup_runs => (invoked' <=> ~Failed(last'))]_vars

\* The trigger recurred after the bootstrap had completed at the second attempt.
C5_Witness == invoked /\ setup_runs = 2 /\ last.name = "setup_lxd" /\ ~last.ran

\* C6: the image resource is fetched and the image imported only after the
\* 'image show' probe of the same execution raised the OSError of call(); when
\* the probe returns, neither happens.
C6_ImportOnlyAfterProbeMiss ==
    LET probes == Commands(last.calls, LXC_IMAGE_SHOW)
        acts == Fetches(last.calls, IMAGE_NAME) \cup Commands(last.calls, LXC_IMAGE_IMPORT)
    IN /\ \A i \in acts : \E j \in probes : j < i /\ last.calls[j][4] \in Miss
       /\ (\E j \in probes : last.calls[j][4] = "returned") => acts = {}

\* An execution that imported the image.
C6_Witness ==
    \E i \in Commands(last.calls, LXC_IMAGE_IMPORT) : last.calls[i][4] = "returned"

\* C7: a reaction that raises leaves the states as they were before it.
C7_FailedReactionKeepsFlags ==
    [][Failed(last') => flags' = flags]_vars

\* A stop that failed while the service was started and installed.
C7_Witness ==
    last.name = "stop" /\ Failed(last) /\ Started /\ "jujushell.installed" \in flags

\* C8: build_config() raises when JUJU_API_ADDRESSES is unset, when agent.conf
\* is missing, is not YAML, is empty or has no cacert key, and then config.yaml
\* is what it was before the call.
NoCertificate(agent) ==
    \/ agent = NoFile
    \/ agent[1].yaml \in {"error", "null"}
    \/ ~HasKey(agent[1].map, "cacert")

C8_FailedBuildKeepsFile ==
    (build_out # None /\ (build_in.addrs = None \/ NoCertificate(build_in.agent)))
        => (build_out[1].exc # NoExc /\ build_out[1].file = build_in.file)

\* A call that failed for want of a certificate while config.yaml held a document.
C8_Witness ==
    /\ build_out # None
    /\ build_in.addrs # None
    /\ build_in.agent = File(YamlNull)
    /\ build_in.file = File(OldDocument)

\* C9 as claimed: a probe that could not be launched aborts the bootstrap: it is
\* the last call of the execution and the execution raises.
C9_NotFoundIsFatal ==
    \A i \in Commands(last.calls, LXC_NETWORK_SHOW) \cup Commands(last.calls, LXC_IMAGE_SHOW) :
        last.calls[i][4] = "not found" => (i = Len(last.calls) /\ Failed(last))

\* C10 as claimed: call() returns when the subprocess exits with code 0, raises
\* the OSError of a failed command, with the joined command line, the exit code
\* and stdout + stderr, when it exits with another code, and raises the OSError
\* of a command not found when the subprocess cannot be launched.
C10_ThreeResults ==
    call_out # None =>
        LET r == call_out[1]
            proc == call_in.proc
            cmdline == join(<<" ">>, [i \in 1..Len(call_in.cmd) |-> quote(call_in.cmd[i])])
        IN IF ~proc.launched
           THEN r.exc = "OSError" /\ Ending(r) = "not found"
           ELSE IF proc.retcode = 0
           THEN r.exc = NoExc
           ELSE /\ r.exc = "OSError"
                /\ Ending(r) = "failed with retcode"
                /\ r.msg[2] = cmdline
                /\ r.msg[3] = <<proc.retcode>>
                /\ Len(r.msg[4]) = Len(proc.stdout) + Len(proc.stderr)

\* C11: in the scenario install, start, config-changed with a new port, stop,
\* each succeeding: after install config.yaml exists and holds the configured
\* port and log-level; after start the restart command has been run, the service
\* is active and started is set, stopped is not; after config-changed the port
\* saved before is not open, the configured port is open and the restart command
\* has been run again; after stop the stop command has been run, the service is
\* inactive and stopped is set, started is not.
C11_EndToEnd ==
    [][/\ scenario' = 1 =>
            /\ config_file' # NoFile
            /\ safe_load(config_file'[1])["port"] = YamlInt(last'.in.cfg.port)
            /\ safe_load(config_file'[1])["log-level"] = YamlStr(last'.in.cfg.log_level)
       /\ scenario' = 2 =>
            /\ \E i \in Commands(last'.calls, SYSTEMCTL_RESTART) : last'.calls[i][4] = "returned"
            /\ service' = "active"
            /\ Started' /\ ~Stopped'
       /\ scenario' = 3 =>
            /\ prev_port[1] \notin open_ports'
            /\ open_ports' = {last'.in.cfg.port}
            /\ \E i \in Commands(last'.calls, SYSTEMCTL_RESTART) : last'.calls[i][4] = "returned"
            /\ service' = "active"
       /\ scenario' = 4 =>
            /\ \E i \in Commands(last'.calls, SYSTEMCTL_STOP) : last'.calls[i][4] = "returned"
            /\ service' = "inactive"
            /\ Stopped' /\ ~Started'
      ]_vars

\* The scenario has been run to its end.
C11_Witness == scenario = 4 /\ last.name = "stop" /\ open_ports # {}

\* C12: jujushell.installed is set only by an install reaction that rendered the
\* unit definition, fetched the binary and made it executable, built config.yaml
\* and ran 'systemctl enable' and 'systemctl daemon-reload', each succeeding, and
\* that sets it as its last step; so whenever it is set the unit definition and
\* the executable binary are in place, config.yaml has been written and the unit
\* is enabled.  An install reaction in which the fetch, the build or a command
\* failed raises, and does not set it.
Installed == "jujushell.installed" \in flags

InstallTrace ==
    <<Entry("render", None, <<<<"jujushell.service">>>>, "returned"),
      Entry("save_resource", None, <<<<"jujushell">>>>, "returned"),
      Entry("build_config", None, <<>>, "returned"),
      Entry("call", None, SYSTEMCTL_ENABLE, "returned"),
      Entry("call", None, SYSTEMCTL_RELOAD, "returned"),
      Entry("set_state", None, <<<<"jujushell.installed">>>>, "returned")>>

C12_InstalledOnlyAfterInstall ==
    /\ [](Installed => (unit_file /\ binary = "executable" /\ config_file # NoFile /\ enabled))
    /\ [][(~Installed /\ Installed') =>
            (last'.name = "install" /\ ~Failed(last') /\ last'.calls = InstallTrace)]_vars
    /\ [][(last'.name = "install" /\ \E i \in 1..Len(last'.calls) : last'.calls[i][4] # "returned")
            => (Failed(last') /\ (Installed' <=> Installed))]_vars
    /\ [][(last'.name = "install" /\ ~Failed(last')) => Installed']_vars

\* An install that succeeded and set the state.
C12_Witness ==
    /\ Installed
    /\ last.name = "install"
    /\ ~Failed(last)
    /\ scenario = 1
    /\ service = "inactive"

\* C13: when install, start, config-changed or stop has succeeded and is invoked
\* again with the same inputs (configuration, JUJU_API_ADDRESSES, agent.conf,
\* resources, and the outcomes of the commands it runs), it succeeds again and
\* leaves the states, the open ports, config.yaml and the enabled and running
\* status of the service as they were after the first invocation.
C13_Idempotent ==
    [][(/\ last.name \in {"install", "start", "config-changed", "stop"}
        /\ ~Failed(last)
        /\ last'.name = last.name
        /\ last'.in = last.in)
       => (/\ ~Failed(last')
           /\ flags' = flags
           /\ open_ports' = open_ports
           /\ config_file' = config_file
           /\ enabled' = enabled
           /\ service' = service)]_vars

\* A config-changed that had succeeded has been invoked again with the same inputs.
C13_Witness ==
    /\ last.name = "config-changed"
    /\ last.again
    /\ scenario = 0
    /\ Started
    /\ open_ports = {MaxPort}

\* C14: after a build_config() that returned, config.yaml holds five entries and
\* reads back as the document with juju-addrs the list of the whitespace-separated
\* addresses of JUJU_API_ADDRESSES, juju-cert the cacert of agent.conf, image-name
\* 'termserver', log-level and port those of the configuration; whatever
\* config.yaml held before the call.
NotWhitespace(c) == c \notin Whitespace

ExpectedDocument(addrs, agent, cfg) ==
    [k \in {"juju-addrs", "juju-cert", "image-name", "log-level", "port"} |->
        CASE k = "juju-addrs" -> YamlList(split(addrs))
          [] k = "juju-cert" -> YamlOptStr(Lookup(agent[1].map, "cacert"))
          [] k = "image-name" -> YamlStr("termserver")
          [] k = "log-level" -> YamlStr(cfg.log_level)
          [] k = "port" -> YamlInt(cfg.port)]

C14_ConfigIsExactDocument ==
    (build_out # None /\ build_out[1].exc = NoExc) =>
        LET file == build_out[1].file
            doc == safe_load(file[1])
            list == doc["juju-addrs"][3]
        IN /\ file # NoFile
           /\ Len(file[1]) = 5
           /\ doc = ExpectedDocument(build_in.addrs[1], build_in.agent, build_in.cfg)
           /\ \A i \in 1..Len(list) : list[i] # <<>> /\ Range(list[i]) \cap Whitespace = {}
           /\ Concat(list) = SelectSeq(build_in.addrs[1], NotWhitespace)

\* A call that returned, with two addresses, while config.yaml held another document.
C14_Witness ==
    /\ build_out # None
    /\ build_out[1].exc = NoExc
    /\ build_in.file = File(OldDocument)
    /\ build_in.addrs = Some(<<"a", " ", "a">>)
    /\ build_in.cfg.port = MaxPort

\* C15: in every start and config-changed reaction the calls are issued in the
\* order close_port (if any), open_port, build_config, 'systemctl restart',
\* set_state started, remove_state stopped, each at most once and none after one
\* that failed; a reaction that succeeds issues all of them from open_port on.
\* The restart command is not issued, and the service is left as it was, in a
\* reaction whose build_config raised; no state is set or removed in a reaction
\* whose restart command failed.
Before(is, js) == \A i \in is, j \in js : i < j

C15_OrderOfRestart ==
    /\ [](last.name \in Restarts =>
           LET c == last.calls
               closes == Calls(c, "close_port")
               opens == Calls(c, "open_port")
               builds == Calls(c, "build_config")
               restarts == Commands(c, SYSTEMCTL_RESTART)
               sets == Calls(c, "set_state")
               removes == Calls(c, "remove_state")
               steps == <<closes, opens, builds, restarts, sets, removes>>
           IN /\ \A k \in 1..6 : Cardinality(steps[k]) <= 1
              /\ \A k \in 1..5 : \A l \in (k + 1)..6 : Before(steps[k], steps[l])
              /\ UNION {steps[k] : k \in 1..6} = 1..Len(c)
              /\ \A i \in 1..(Len(c) - 1) : c[i][4] = "returned"
              /\ \A k \in 3..6 : steps[k] # {} => steps[k - 1] # {}
              /\ \A i \in sets : c[i][3] = <<<<"jujushell.started">>>>
              /\ \A i \in removes : c[i][3] = <<<<"jujushell.stopped">>>>
              /\ Failed(last) <=> (removes = {} \/ c[Len(c)][4] # "returned"))
    /\ [][(last'.name \in Restarts /\
            \E i \in Calls(last'.calls, "build_config") : last'.calls[i][4] # "returned")
           => (Commands(last'.calls, SYSTEMCTL_RESTART) = {} /\ service' = service
               /\ flags' = flags)]_vars
    /\ [][(last'.name \in Restarts /\
            \E i \in Commands(last'.calls, SYSTEMCTL_RESTART) : last'.calls[i][4] # "returned")
           => flags' = flags]_vars

\* A start whose restart command failed after the port was changed and config.yaml rebuilt.
C15_Witness ==
    /\ last.name = "start"
    /\ Calls(last.calls, "close_port") # {}
    /\ \E i \in Commands(last.calls, SYSTEMCTL_RESTART) : last.calls[i][4] = "failed with retcode"
    /\ prev_port # None
    /\ ~Started

\* C16 as claimed: a start or config-changed reaction that finds no saved port
\* issues no close_port, and its only port call is open_port for the configured port.
C16_NoCloseOnFirstRestart ==
    [][(last'.name \in Restarts /\ prev_port = None) =>
         (/\ Calls(last'.calls, "close_port") = {}
          /\ PortCalls(last'.calls) =
                <<Entry("open_port", Some(last'.in.cfg.port), <<>>, "returned")>>)]_vars

\* C17: a stop reaction, whether it succeeds or fails, changes nothing but the
\* running status of the service and the states jujushell.started and
\* jujushell.stopped: the open ports, the saved port, config.yaml, the other
\* states, the unit definition, the binary, the enabled status, the record of
\* setup_lxd and what LXD holds are as before; it issues no port call.
StartStop == {"jujushell.started", "jujushell.stopped"}

C17_StopFrame ==
    [][last'.name = "stop" =>
         (/\ open_ports' = open_ports
          /\ prev_port' = prev_port
          /\ config_file' = config_file
          /\ flags' \ StartStop = flags \ StartStop
          /\ invoked' = invoked
          /\ unit_file' = unit_file
          /\ binary' = binary
          /\ enabled' = enabled
          /\ <<in_group', bridge', image'>> = <<in_group, bridge, image>>
          /\ PortCalls(last'.calls) = <<>>)]_vars

\* A stop that succeeded on an installed unit whose last restart had opened the highest port.
C17_Witness ==
    /\ last.name = "stop"
    /\ ~Failed(last)
    /\ Installed
    /\ open_ports = {MaxPort}
    /\ prev_port = Some(MaxPort)
    /\ service = "inactive"

\* C18: whenever setup_lxd is marked as invoked, the bridge jujushellbr0 and the
\* image alias termserver exist; and in every execution the image probe, the
\* image fetch and the image import come after a bridge probe that returned or
\* an initialization command that returned, so that none of them is issued in
\* an execution whose initialization command failed.
C18_GuardImpliesBootstrapped ==
    LET c == last.calls
        image_calls == Commands(c, LXC_IMAGE_SHOW) \cup Fetches(c, IMAGE_NAME)
                         \cup Commands(c, LXC_IMAGE_IMPORT)
        bridge_done == {j \in Commands(c, LXC_NETWORK_SHOW) \cup Commands(c, LXD_INIT_COMMAND) :
                          c[j][4] = "returned"}
    IN /\ invoked => (bridge /\ image)
       /\ \A i \in image_calls : \E j \in bridge_done : j < i
       /\ (\E j \in Commands(c, LXD_INIT_COMMAND) : c[j][4] # "returned") => image_calls = {}

\* The bootstrap completed at a second execution, which initialized LXD and imported the image.
C18_Witness ==
    /\ invoked
    /\ setup_runs = 2
    /\ last.ran
    /\ \E j \in Commands(last.calls, LXD_INIT_COMMAND) : last.calls[j][4] = "returned"
    /\ \E j \in Commands(last.calls, LXC_IMAGE_IMPORT) : last.calls[j][4] = "returned"

====
